---- MODULE Spec2Model ----
(***************************************************************************)
(* SerialInterfaceLinux (ldlidar_driver/src/serial_interface_linux.cpp):   *)
(* one transport instance, the threads that call it, the receiver threads  *)
(* it starts, and the part of the operating system it talks to (the table  *)
(* of open descriptors and the byte queues behind them).                   *)
(*                                                                         *)
(* Every handler is cut into steps at the points where another thread can  *)
(* observe or change what it reads: a blocking call (connect, pselect,     *)
(* join, the callback) ends a step, and so does every separate access to   *)
(* com_handle_ that Close() can interleave with.                           *)
(***************************************************************************)
EXTENDS Integers, Sequences, FiniteSets, TLC

\* ------------------------------------------------------------------ bounds
MaxOpens == 2      \* Open() calls in one run; also the number of receiver threads
MaxFds   == 2      \* size of the descriptor table (descriptors 3 .. 2 + MaxFds)
MaxBytes == 2      \* bytes the caller writes in one run
MaxTail  == 3      \* characters after "tcp://" in a network descriptor

\* ------------------------------------------------------- program constants
MAX_ACK_BUF_LEN == 4096
npos == -1         \* std::string::npos: the value find() gives for "not found"
INVALID == -1      \* the closed value of com_handle_, and a failed socket()/open()
NULLPTR == 0       \* rx_thread_ when no thread object is held

\* ----------------------------------------------------------------- threads
\* Receiver threads are numbered from 1 in the order Open() starts them; the
\* two calling threads take the next two numbers.
Workers == 1..MaxOpens
Main == MaxOpens + 1
Aux == MaxOpens + 2
Callers == {Main, Aux}
Threads == Callers \cup Workers
FdRange == 3..(2 + MaxFds)

VARIABLES
  \* the instance's fields
  com_handle_, com_baudrate_, is_cmd_opened_, rx_thread_exit_flag_,
  rx_thread_, rx_count_, read_callback_,
  \* the operating system
  fds,        \* the open descriptors
  inq,        \* inq[fd]: bytes that have arrived on fd and are not read yet
  outq,       \* outq[fd]: bytes written to fd that the peer has not echoed yet
  crashed,    \* the process was aborted (abort() / std::terminate())
  \* the threads
  pc,         \* where each thread stands
  sel,        \* ReadFromIO's read_fds: the descriptor put into the wait set
  ret,        \* what the thread's last call returned (the receiver thread's `res`)
  out_len,    \* *rx_len / *tx_len (the receiver thread's `readed`)
  buf,        \* the loop's rx_buf after the last read (a caller's is not kept)
  jw,         \* Close(): the thread object being joined
  r,          \* ReadFromIO's r and errno: how the thread's last pselect ended
  nworkers,   \* receiver threads created so far
  joined,     \* thread objects that have been joined
  \* what the callers did and got (history)
  opens,       \* Open() calls made
  last_op,     \* the operation each caller called last
  desc_bad,    \* whether the descriptor of main's last Open() was malformed
  sent,        \* the bytes the operating system accepted from WriteToIo, in order
  delivered,   \* the bytes handed to the callback, in order
  destructing, \* the destructor has been entered
  close_calls, \* close() calls Close() has made since the last successful Open()
  wread        \* the bytes read() has returned to the receiver threads, in number

inst   == <<com_handle_, com_baudrate_, is_cmd_opened_, rx_thread_exit_flag_,
            rx_thread_, rx_count_, read_callback_>>
os     == <<fds, inq, outq>>
locals == <<sel, out_len, buf, jw, r>>
hist   == <<opens, last_op, desc_bad, sent, delivered, destructing, close_calls,
            wread>>
vars   == <<inst, os, crashed, pc, ret, locals, nworkers, joined, hist>>

\* ----------------------------------------------------------------- strings
\* A std::string is a sequence of one-character strings.
Chars == {"h", ":", "9"}
Digits == {"9"}
TcpScheme == <<"t", "c", "p", ":", "/", "/">>
DevPath == <<"/", "d">>

RECURSIVE SeqsUpTo(_)
SeqsUpTo(n) ==
  IF n = 0 THEN {<<>>}
  ELSE LET shorter == SeqsUpTo(n - 1)
       IN shorter \cup {Append(s, c) : s \in {x \in shorter : Len(x) = n - 1}, c \in Chars}

Descriptors == {TcpScheme \o s : s \in SeqsUpTo(MaxTail)} \cup {DevPath}
Bauds == {9600}

\* s.find(c): the 0-based index of the first c in s, or npos
Find(s, c) ==
  IF \E i \in 1..Len(s) : s[i] = c
  THEN (CHOOSE i \in 1..Len(s) : s[i] = c /\ \A j \in 1..(i - 1) : s[j] # c) - 1
  ELSE npos

\* s.find(p) == 0
StartsWith(s, p) == Len(s) >= Len(p) /\ SubSeq(s, 1, Len(p)) = p

\* s.substr(from) and s.substr(0, n)
SubstrFrom(s, from) == SubSeq(s, from + 1, Len(s))
SubstrTo(s, n) == SubSeq(s, 1, n)

\* std::stoi(s) throws std::invalid_argument unless s starts with a digit
StoiThrows(s) == s = <<>> \/ Head(s) \notin Digits


\* The descriptors Open() is documented to reject: network form with no ':'
\* after the scheme, with nothing before it, or with nothing after it.
Malformed(port_name) ==
  /\ StartsWith(port_name, TcpScheme)
  /\ LET ip_port == SubstrFrom(port_name, 6)
         pos == Find(ip_port, ":")
     IN \/ pos = npos
        \/ pos = 0
        \/ pos + 1 = Len(ip_port)

\* ------------------------------------------------------------ initial state
is_cmd_opened_init == FALSE

Init ==
  /\ com_handle_ = INVALID
  /\ com_baudrate_ = 0
  /\ is_cmd_opened_ = is_cmd_opened_init
  /\ rx_thread_exit_flag_ = FALSE
  /\ rx_thread_ = NULLPTR
  /\ rx_count_ = 0
  /\ read_callback_ = FALSE
  /\ fds = {}
  /\ inq = [f \in FdRange |-> <<>>]
  /\ outq = [f \in FdRange |-> <<>>]
  /\ crashed = FALSE
  /\ pc = [t \in Threads |-> IF t \in Callers THEN "idle" ELSE "unborn"]
  /\ sel = [t \in Threads |-> INVALID]
  /\ ret = [t \in Threads |-> "none"]
  /\ out_len = [t \in Threads |-> 0]
  /\ buf = [t \in Threads |-> <<>>]
  /\ jw = [c \in Callers |-> NULLPTR]
  /\ r = [t \in Threads |-> "none"]
  /\ nworkers = 0
  /\ joined = {}
  /\ opens = 0
  /\ last_op = [c \in Callers |-> "none"]
  /\ desc_bad = FALSE
  /\ sent = <<>>
  /\ delivered = <<>>
  /\ destructing = FALSE
  /\ close_calls = 0
  /\ wread = 0

\* ------------------------------------------------------- operating system
Min(a, b) == IF a <= b THEN a ELSE b

\* the descriptor socket() / open() returns when it succeeds: the lowest free one
LowestFree == CHOOSE f \in FdRange \ fds : \A g \in FdRange \ fds : f <= g

\* what socket() / open() can return: a new descriptor, or -1
NewHandles == (IF FdRange \ fds = {} THEN {} ELSE {LowestFree}) \cup {INVALID}

\* close(h): an open descriptor is released and its queues are gone;
\* close() of anything else fails with EBADF and changes nothing
OsClose(h) ==
  /\ fds' = fds \ {h}
  /\ inq' = [f \in FdRange |-> IF f = h THEN <<>> ELSE inq[f]]
  /\ outq' = [f \in FdRange |-> IF f = h THEN <<>> ELSE outq[f]]

\* the header's IsOpened()
IsOpened == is_cmd_opened_

\* a caller's call returns
Returns(c, val) ==
  /\ pc' = [pc EXCEPT ![c] = "idle"]
  /\ ret' = [ret EXCEPT ![c] = val]

\* a caller is free to make a call
CanCall(c) == ~crashed /\ ~destructing /\ pc[c] = "idle"

At(t, label) == ~crashed /\ pc[t] = label

\* -------------------------------------------------------------------- Open
\* Open() starting the thread without clearing the exit flag
StartWorker_KeepsFlag(c) ==
  LET w == nworkers + 1 IN
  /\ rx_thread_' = w
  /\ nworkers' = w
  /\ pc' = [pc EXCEPT ![c] = "op_done", ![w] = "w_loop"]
  /\ close_calls' = 0
  /\ UNCHANGED <<rx_thread_exit_flag_, is_cmd_opened_, ret>>

\* lines 68-69 and 135-136: clear the exit flag and start the receiver
\* thread, which runs from here on
StartWorker(c) ==
  LET w == nworkers + 1 IN
  /\ rx_thread_exit_flag_' = FALSE
  /\ rx_thread_' = w
  /\ nworkers' = w
  /\ pc' = [pc EXCEPT ![c] = "op_done", ![w] = "w_loop"]
  /\ close_calls' = 0
  /\ UNCHANGED <<is_cmd_opened_, ret>>

\* lines 41-57 and 75-83: parse the descriptor, create the socket or open the device
Open_Begin(c, port_name, com_baudrate) ==
  /\ CanCall(c)
  /\ opens < MaxOpens
  /\ opens' = opens + 1
  /\ last_op' = [last_op EXCEPT ![c] = "Open"]
  /\ desc_bad' = Malformed(port_name)
  /\ IF StartsWith(port_name, TcpScheme)
     THEN LET ip_port == SubstrFrom(port_name, 6)
              pos == Find(ip_port, ":")
          IN IF pos = npos \/ pos = Len(ip_port)
             THEN /\ Returns(c, "false")
                  /\ UNCHANGED <<com_handle_, com_baudrate_, fds>>
             ELSE LET port == SubstrFrom(ip_port, pos + 1) IN
                  \E s \in NewHandles :
                    /\ com_handle_' = s
                    /\ fds' = IF s = INVALID THEN fds ELSE fds \cup {s}
                    /\ IF StoiThrows(port)
                       THEN Returns(c, "threw")
                       ELSE /\ pc' = [pc EXCEPT ![c] = "op_connect"]
                            /\ ret' = [ret EXCEPT ![c] = "none"]
                    /\ UNCHANGED com_baudrate_
     ELSE \E s \in NewHandles :
            /\ com_handle_' = s
            /\ fds' = IF s = INVALID THEN fds ELSE fds \cup {s}
            /\ IF s = INVALID
               THEN /\ Returns(c, "false")
                    /\ UNCHANGED com_baudrate_
               ELSE /\ com_baudrate_' = com_baudrate
                    /\ pc' = [pc EXCEPT ![c] = "op_attr"]
                    /\ ret' = [ret EXCEPT ![c] = "none"]
  /\ UNCHANGED <<is_cmd_opened_, rx_thread_exit_flag_, rx_thread_, rx_count_,
                 read_callback_, inq, outq, crashed, locals, nworkers, joined,
                 sent, delivered, destructing, close_calls, wread>>

\* lines 59-69: connect; on failure return false, else go non-blocking and
\* start the thread
Open_Connect(c) ==
  /\ At(c, "op_connect")
  /\ \/ /\ Returns(c, "false")
        /\ UNCHANGED <<is_cmd_opened_, rx_thread_exit_flag_, rx_thread_, nworkers,
                       close_calls>>
     \/ /\ com_handle_ \in fds
        /\ StartWorker(c)
  /\ UNCHANGED <<com_handle_, com_baudrate_, rx_count_, read_callback_, os, crashed,
                 locals, joined, opens, last_op, desc_bad, sent, delivered,
                 destructing, wread>>

\* lines 85-136: get and set the line attributes; on failure close the device
\* and return false, else flush the input and start the thread
Open_Attr(c) ==
  /\ At(c, "op_attr")
  /\ \/ /\ Returns(c, "false")
        /\ IF com_handle_ # INVALID
           THEN OsClose(com_handle_) /\ com_handle_' = INVALID
           ELSE UNCHANGED <<os, com_handle_>>
        /\ UNCHANGED <<is_cmd_opened_, rx_thread_exit_flag_, rx_thread_, nworkers,
                       close_calls>>
     \/ /\ com_handle_ \in fds
        /\ inq' = [inq EXCEPT ![com_handle_] = <<>>]
        /\ StartWorker(c)
        /\ UNCHANGED <<com_handle_, fds, outq>>
  /\ UNCHANGED <<com_baudrate_, rx_count_, read_callback_, crashed, locals, joined,
                 opens, last_op, desc_bad, sent, delivered, destructing, wread>>

\* lines 70-72 and 137-138: mark the instance open and return true
Open_Done(c) ==
  /\ At(c, "op_done")
  /\ is_cmd_opened_' = TRUE
  /\ Returns(c, "true")
  /\ UNCHANGED <<com_handle_, com_baudrate_, rx_thread_exit_flag_, rx_thread_,
                 rx_count_, read_callback_, os, crashed, locals, nworkers, joined,
                 hist>>

\* ------------------------------------------------------------------- Close
\* a caller calls Close() (ret is "none" while a call is running)
Close_Call(c) ==
  /\ CanCall(c)
  /\ pc' = [pc EXCEPT ![c] = "cl_enter"]
  /\ ret' = [ret EXCEPT ![c] = "none"]
  /\ last_op' = [last_op EXCEPT ![c] = "Close"]
  /\ UNCHANGED <<inst, os, crashed, locals, nworkers, joined, opens, desc_bad,
                 sent, delivered, destructing, close_calls, wread>>

\* line 38: the destructor calls Close(); nothing is called after it
Destructor(c) ==
  /\ CanCall(c)
  /\ \A d \in Callers : pc[d] = "idle"
  /\ destructing' = TRUE
  /\ pc' = [pc EXCEPT ![c] = "cl_enter"]
  /\ ret' = [ret EXCEPT ![c] = "none"]
  /\ last_op' = [last_op EXCEPT ![c] = "Close"]
  /\ UNCHANGED <<inst, os, crashed, locals, nworkers, joined, opens, desc_bad,
                 sent, delivered, close_calls, wread>>

\* Close() without its early return
Close_Enter_NoCheck(c) ==
  /\ At(c, "cl_enter")
  /\ rx_thread_exit_flag_' = TRUE
  /\ pc' = [pc EXCEPT ![c] = "cl_close"]
  /\ UNCHANGED <<com_handle_, com_baudrate_, is_cmd_opened_, rx_thread_, rx_count_,
                 read_callback_, os, crashed, ret, locals, nworkers, joined, hist>>

\* lines 143-147: return at once when not open, else set the exit flag
Close_Enter(c) ==
  /\ At(c, "cl_enter")
  /\ IF is_cmd_opened_ = FALSE
     THEN /\ Returns(c, "true")
          /\ last_op' = [last_op EXCEPT ![c] = "Close_noop"]
          /\ UNCHANGED rx_thread_exit_flag_
     ELSE /\ rx_thread_exit_flag_' = TRUE
          /\ pc' = [pc EXCEPT ![c] = "cl_close"]
          /\ UNCHANGED <<ret, last_op>>
  /\ UNCHANGED <<com_handle_, com_baudrate_, is_cmd_opened_, rx_thread_, rx_count_,
                 read_callback_, os, crashed, locals, nworkers, joined, opens,
                 desc_bad, sent, delivered, destructing, close_calls, wread>>

\* lines 149-150: close the handle if there is one
Close_Handle(c) ==
  /\ At(c, "cl_close")
  /\ IF com_handle_ # INVALID
     THEN /\ OsClose(com_handle_)
          /\ close_calls' = close_calls + 1
          /\ pc' = [pc EXCEPT ![c] = "cl_reset"]
     ELSE /\ pc' = [pc EXCEPT ![c] = "cl_joinchk"]
          /\ UNCHANGED <<os, close_calls>>
  /\ UNCHANGED <<inst, crashed, ret, locals, nworkers, joined, opens, last_op,
                 desc_bad, sent, delivered, destructing, wread>>

\* line 151
Close_Reset(c) ==
  /\ At(c, "cl_reset")
  /\ com_handle_' = INVALID
  /\ pc' = [pc EXCEPT ![c] = "cl_joinchk"]
  /\ UNCHANGED <<com_baudrate_, is_cmd_opened_, rx_thread_exit_flag_, rx_thread_,
                 rx_count_, read_callback_, os, crashed, ret, locals, nworkers,
                 joined, hist>>

\* Close() without its join
Close_JoinCheck_NoJoin(c) ==
  /\ At(c, "cl_joinchk")
  /\ pc' = [pc EXCEPT ![c] = "cl_done"]
  /\ UNCHANGED <<inst, os, crashed, ret, locals, nworkers, joined, hist>>

\* line 154: is there a thread object, and is it joinable
Close_JoinCheck(c) ==
  /\ At(c, "cl_joinchk")
  /\ IF rx_thread_ # NULLPTR /\ rx_thread_ \notin joined
     THEN /\ jw' = [jw EXCEPT ![c] = rx_thread_]
          /\ pc' = [pc EXCEPT ![c] = "cl_join"]
     ELSE /\ pc' = [pc EXCEPT ![c] = "cl_done"]
          /\ UNCHANGED jw
  /\ UNCHANGED <<inst, os, crashed, ret, sel, out_len, buf, r, nworkers, joined,
                 hist>>

\* line 155: join() returns when the thread has ended. join() of a thread that
\* another caller has joined meanwhile throws std::system_error, or, the
\* object being freed by then, takes the process down.
Close_Join(c) ==
  /\ At(c, "cl_join")
  /\ IF jw[c] \in joined
     THEN /\ \/ Returns(c, "threw") /\ UNCHANGED crashed
             \/ crashed' = TRUE /\ UNCHANGED <<pc, ret>>
          /\ jw' = [jw EXCEPT ![c] = NULLPTR]
          /\ UNCHANGED joined
     ELSE /\ pc[jw[c]] = "stopped"
          /\ joined' = joined \cup {jw[c]}
          /\ pc' = [pc EXCEPT ![c] = "cl_delete"]
          /\ UNCHANGED <<crashed, ret, jw>>
  /\ UNCHANGED <<inst, os, sel, out_len, buf, r, nworkers, hist>>

\* lines 156-157: delete the thread object (std::terminate() if the object
\* rx_thread_ now points to is a running thread) and forget it
Close_Delete(c) ==
  /\ At(c, "cl_delete")
  /\ IF rx_thread_ # NULLPTR /\ rx_thread_ \notin joined
     THEN crashed' = TRUE /\ UNCHANGED <<pc, rx_thread_, jw>>
     ELSE /\ rx_thread_' = NULLPTR
          /\ pc' = [pc EXCEPT ![c] = "cl_done"]
          /\ jw' = [jw EXCEPT ![c] = NULLPTR]
          /\ UNCHANGED crashed
  /\ UNCHANGED <<com_handle_, com_baudrate_, is_cmd_opened_, rx_thread_exit_flag_,
                 rx_count_, read_callback_, os, ret, sel, out_len, buf, r, nworkers,
                 joined, hist>>

\* Close() that also clears the byte counter
Close_Done_ClearsCount(c) ==
  /\ At(c, "cl_done")
  /\ is_cmd_opened_' = FALSE
  /\ rx_count_' = 0
  /\ Returns(c, "true")
  /\ UNCHANGED <<com_handle_, com_baudrate_, rx_thread_exit_flag_, rx_thread_,
                 read_callback_, os, crashed, locals, nworkers, joined, hist>>

\* lines 160-162
Close_Done(c) ==
  /\ At(c, "cl_done")
  /\ is_cmd_opened_' = FALSE
  /\ Returns(c, "true")
  /\ UNCHANGED <<com_handle_, com_baudrate_, rx_thread_exit_flag_, rx_thread_,
                 rx_count_, read_callback_, os, crashed, locals, nworkers, joined,
                 hist>>

\* -------------------------------------------------------------- ReadFromIO
\* ReadFromIO returns to the thread that called it: a caller, or the loop
RdReturn(t, val) ==
  /\ pc' = [pc EXCEPT ![t] = IF t \in Callers THEN "idle" ELSE "w_chk"]
  /\ ret' = [ret EXCEPT ![t] = val]
  /\ sel' = [sel EXCEPT ![t] = INVALID]

\* a caller calls ReadFromIO() with its out-length zeroed, or with no
\* out-length at all (rx_len = nullptr, written -1 here)
Read_Call(c) ==
  /\ CanCall(c)
  /\ pc' = [pc EXCEPT ![c] = "rd_enter"]
  /\ ret' = [ret EXCEPT ![c] = "none"]
  /\ last_op' = [last_op EXCEPT ![c] = "Read"]
  /\ \E rx_len \in {0, -1} : out_len' = [out_len EXCEPT ![c] = rx_len]
  /\ buf' = [buf EXCEPT ![c] = <<>>]
  /\ r' = [r EXCEPT ![c] = "none"]
  /\ UNCHANGED <<inst, os, crashed, sel, jw, nworkers, joined, opens, desc_bad,
                 sent, delivered, destructing, close_calls, wread>>

\* ReadFromIO() without its IsOpened() test
ReadFromIO_Enter_NoCheck(t) ==
  /\ At(t, "rd_enter")
  /\ pc' = [pc EXCEPT ![t] = "rd_select"]
  /\ sel' = [sel EXCEPT ![t] = com_handle_]
  /\ UNCHANGED <<inst, os, crashed, ret, out_len, buf, jw, r, nworkers, joined,
                 hist>>

\* lines 168-174: fail when not open; else put com_handle_ into the wait set
\* and enter pselect. FD_SET(-1, ...) is out of the set's bounds: a fortified
\* build aborts there, another one waits on an empty set.
ReadFromIO_Enter(t) ==
  /\ At(t, "rd_enter")
  /\ IF ~IsOpened
     THEN RdReturn(t, "false") /\ UNCHANGED crashed
     ELSE IF com_handle_ = INVALID
          THEN \/ crashed' = TRUE /\ UNCHANGED <<pc, ret, sel>>
               \/ /\ pc' = [pc EXCEPT ![t] = "rd_select"]
                  /\ sel' = [sel EXCEPT ![t] = INVALID]
                  /\ UNCHANGED <<crashed, ret>>
          ELSE /\ pc' = [pc EXCEPT ![t] = "rd_select"]
               /\ sel' = [sel EXCEPT ![t] = com_handle_]
               /\ UNCHANGED <<crashed, ret>>
  /\ UNCHANGED <<inst, os, out_len, buf, jw, r, nworkers, joined, hist>>

\* line 184 after a wait that left the descriptor h set: FD_ISSET(com_handle_, ...)
\* is true for h, false for another descriptor, and out of bounds for -1
IsSetAfterReady(t, h) ==
  IF com_handle_ = h
  THEN pc' = [pc EXCEPT ![t] = "rd_read"] /\ UNCHANGED <<crashed, ret, sel>>
  ELSE IF com_handle_ = INVALID
       THEN \/ crashed' = TRUE /\ UNCHANGED <<pc, ret, sel>>
            \/ pc' = [pc EXCEPT ![t] = "rd_read"] /\ UNCHANGED <<crashed, ret, sel>>
            \/ RdReturn(t, "false") /\ UNCHANGED crashed
       ELSE RdReturn(t, "false") /\ UNCHANGED crashed

\* line 184 after a wait that failed: the set's content is unspecified
IsSetAfterError(t) ==
  \/ com_handle_ = INVALID /\ crashed' = TRUE /\ UNCHANGED <<pc, ret, sel>>
  \/ pc' = [pc EXCEPT ![t] = "rd_read"] /\ UNCHANGED <<crashed, ret, sel>>
  \/ RdReturn(t, "false") /\ UNCHANGED crashed

\* nothing will make h readable: it is not open, or nothing has arrived on it
NoData(h) == IF h \in fds THEN inq[h] = <<>> ELSE TRUE

\* the thread's pselect has ended in the way `how`
Waited(t, how) == r' = [r EXCEPT ![t] = how]

\* ReadFromIO() without its return for an interrupted wait
ReadFromIO_Select_NoEINTR(t) ==
  /\ At(t, "rd_select")
  /\ LET h == sel[t] IN
     \/ h # INVALID /\ Waited(t, "EINTR") /\ IsSetAfterError(t)
     \/ /\ NoData(h)
        /\ Waited(t, "timeout")
        /\ RdReturn(t, "false") /\ UNCHANGED crashed
     \/ h # INVALID /\ Waited(t, "error") /\ IsSetAfterError(t)
     \/ h \in fds /\ Waited(t, "ready") /\ IsSetAfterReady(t, h)
  /\ UNCHANGED <<inst, os, out_len, buf, jw, nworkers, joined, hist>>

\* lines 174-184: pselect returns. Interrupted: fail. Timed out (nothing to
\* read for 100 ms, or nothing to wait on): fail. Another error: go on to
\* FD_ISSET. Readable: go on to FD_ISSET.
ReadFromIO_Select(t) ==
  /\ At(t, "rd_select")
  /\ LET h == sel[t] IN
     \/ /\ Waited(t, "EINTR")                                         \* r < 0
        /\ RdReturn(t, "false") /\ UNCHANGED crashed
     \/ /\ NoData(h)                                                  \* r == 0
        /\ Waited(t, "timeout")
        /\ RdReturn(t, "false") /\ UNCHANGED crashed
     \/ h # INVALID /\ Waited(t, "error") /\ IsSetAfterError(t)        \* r < 0
     \/ h \in fds /\ Waited(t, "ready") /\ IsSetAfterReady(t, h)       \* r > 0
  /\ UNCHANGED <<inst, os, out_len, buf, jw, nworkers, joined, hist>>

\* the rx_buf_len a thread passes: the loop's buffer, or a caller's choice
BufLens(t) == IF t \in Callers THEN 0..MaxBytes ELSE {MAX_ACK_BUF_LEN}

\* ReadFromIO() without its write of *rx_len
ReadFromIO_Read_NoLen(t) ==
  /\ At(t, "rd_read")
  /\ LET h == com_handle_ IN
     \/ /\ RdReturn(t, "false")
        /\ UNCHANGED <<inq, buf, wread>>
     \/ /\ h \in fds
        /\ \E rx_buf_len \in BufLens(t) :
           \E len \in 0..Min(Len(inq[h]), rx_buf_len) :
             /\ len = 0 => (inq[h] = <<>> \/ rx_buf_len = 0)
             /\ inq' = [inq EXCEPT ![h] = SubSeq(inq[h], len + 1, Len(inq[h]))]
             /\ buf' = [buf EXCEPT ![t] = IF len = 0 \/ t \in Callers THEN buf[t]
                                          ELSE SubSeq(inq[h], 1, len)]
             /\ wread' = IF t \in Workers THEN wread + len ELSE wread
             /\ RdReturn(t, "true")
  /\ UNCHANGED <<inst, fds, outq, crashed, out_len, jw, r, nworkers, joined, opens,
                 last_op, desc_bad, sent, delivered, destructing, close_calls>>

\* lines 185-191: one read(); its count goes to *rx_len unless it failed
\* (or rx_len is null, which only a caller can pass)
ReadFromIO_Read(t) ==
  /\ At(t, "rd_read")
  /\ LET h == com_handle_ IN
     \/ /\ RdReturn(t, "false")                                        \* read() = -1
        /\ UNCHANGED <<inq, out_len, buf, wread>>
     \/ /\ h \in fds
        /\ \E rx_buf_len \in BufLens(t) :
           \E len \in 0..Min(Len(inq[h]), rx_buf_len) :
             /\ len = 0 => (inq[h] = <<>> \/ rx_buf_len = 0)
             /\ inq' = [inq EXCEPT ![h] = SubSeq(inq[h], len + 1, Len(inq[h]))]
             /\ buf' = [buf EXCEPT ![t] = IF len = 0 \/ t \in Callers THEN buf[t]
                                          ELSE SubSeq(inq[h], 1, len)]
             /\ out_len' = IF out_len[t] < 0 THEN out_len
                           ELSE [out_len EXCEPT ![t] = len]
             /\ wread' = IF t \in Workers THEN wread + len ELSE wread
             /\ RdReturn(t, "true")
  /\ UNCHANGED <<inst, fds, outq, crashed, jw, r, nworkers, joined, opens, last_op,
                 desc_bad, sent, delivered, destructing, close_calls>>

\* ------------------------------------------------------------- WriteToIo
\* WriteToIo() without its IsOpened() test
WriteToIo_NoCheck(c) ==
  /\ CanCall(c)
  /\ Len(sent) < MaxBytes
  /\ last_op' = [last_op EXCEPT ![c] = "Write"]
  /\ LET h == com_handle_ IN
     \/ /\ Returns(c, "false")
        /\ UNCHANGED <<outq, sent, out_len>>
     \/ /\ h \in fds
        /\ \E tx_buf_len \in 1..(MaxBytes - Len(sent)) : \E len \in 0..tx_buf_len :
             LET bytes == [i \in 1..len |-> Len(sent) + i] IN
             /\ outq' = [outq EXCEPT ![h] = outq[h] \o bytes]
             /\ sent' = sent \o bytes
             /\ out_len' = [out_len EXCEPT ![c] = len]
             /\ Returns(c, "true")
  /\ UNCHANGED <<inst, fds, inq, crashed, sel, buf, jw, r, nworkers, joined, opens,
                 desc_bad, delivered, destructing, close_calls, wread>>

\* lines 194-205: fail when not open; else one write(), whose count (any
\* number of bytes up to tx_buf_len) goes to *tx_len unless it failed. The
\* bytes written are numbered in the order they are accepted.
WriteToIo(c) ==
  /\ CanCall(c)
  /\ Len(sent) < MaxBytes
  /\ last_op' = [last_op EXCEPT ![c] = "Write"]
  /\ LET h == com_handle_ IN
     \/ /\ Returns(c, "false")                      \* not open, or write() = -1
        /\ UNCHANGED <<outq, sent, out_len>>
     \/ /\ IsOpened
        /\ h \in fds
        /\ \E tx_buf_len \in 1..(MaxBytes - Len(sent)) : \E len \in 0..tx_buf_len :
             LET bytes == [i \in 1..len |-> Len(sent) + i] IN
             /\ outq' = [outq EXCEPT ![h] = outq[h] \o bytes]
             /\ sent' = sent \o bytes
             /\ out_len' = [out_len EXCEPT ![c] = len]
             /\ Returns(c, "true")
  /\ UNCHANGED <<inst, fds, inq, crashed, sel, buf, jw, r, nworkers, joined, opens,
                 desc_bad, delivered, destructing, close_calls, wread>>

\* the peer echoes the oldest byte it has received on an open descriptor
PeerEcho(f) ==
  /\ ~crashed
  /\ f \in fds
  /\ outq[f] # <<>>
  /\ inq' = [inq EXCEPT ![f] = Append(inq[f], Head(outq[f]))]
  /\ outq' = [outq EXCEPT ![f] = Tail(outq[f])]
  /\ UNCHANGED <<inst, fds, crashed, pc, ret, locals, nworkers, joined, hist>>

\* the header's SetReadCallback(): a callback is registered
SetReadCallback(c) ==
  /\ CanCall(c)
  /\ read_callback_ = FALSE
  /\ read_callback_' = TRUE
  /\ UNCHANGED <<com_handle_, com_baudrate_, is_cmd_opened_, rx_thread_exit_flag_,
                 rx_thread_, rx_count_, os, crashed, pc, ret, locals, nworkers,
                 joined, hist>>

\* ------------------------------------------------------------ RxThreadProc
\* lines 210-212: leave the loop when the exit flag is set, else read
\* (`readed` is 0 at the start of every iteration)
RxThreadProc_Loop(w) ==
  /\ At(w, "w_loop")
  /\ IF rx_thread_exit_flag_
     THEN pc' = [pc EXCEPT ![w] = "stopped"]
     ELSE pc' = [pc EXCEPT ![w] = "rd_enter"]
  /\ UNCHANGED <<inst, os, crashed, ret, locals, nworkers, joined, hist>>

\* the loop counting reads instead of bytes
RxThreadProc_Deliver_CountsReads(w) ==
  /\ At(w, "w_chk")
  /\ IF ret[w] = "true" /\ out_len[w] # 0
     THEN /\ rx_count_' = rx_count_ + 1
          /\ IF read_callback_
             THEN /\ delivered' = delivered \o SubSeq(buf[w], 1, out_len[w])
                  /\ pc' = [pc EXCEPT ![w] = "in_cb"]
             ELSE /\ pc' = [pc EXCEPT ![w] = "w_loop"]
                  /\ UNCHANGED delivered
     ELSE /\ pc' = [pc EXCEPT ![w] = "w_loop"]
          /\ UNCHANGED <<rx_count_, delivered>>
  /\ ret' = [ret EXCEPT ![w] = "none"]
  /\ buf' = [buf EXCEPT ![w] = <<>>]
  /\ out_len' = [out_len EXCEPT ![w] = 0]
  /\ r' = [r EXCEPT ![w] = "none"]
  /\ UNCHANGED <<com_handle_, com_baudrate_, is_cmd_opened_, rx_thread_exit_flag_,
                 rx_thread_, read_callback_, os, crashed, sel, jw, nworkers, joined,
                 opens, last_op, desc_bad, sent, destructing, close_calls, wread>>

\* the loop without its test of `readed`
RxThreadProc_Deliver_AnyCount(w) ==
  /\ At(w, "w_chk")
  /\ IF ret[w] = "true"
     THEN /\ rx_count_' = rx_count_ + out_len[w]
          /\ IF read_callback_
             THEN /\ delivered' = delivered \o SubSeq(buf[w], 1, out_len[w])
                  /\ pc' = [pc EXCEPT ![w] = "in_cb"]
             ELSE /\ pc' = [pc EXCEPT ![w] = "w_loop"]
                  /\ UNCHANGED delivered
     ELSE /\ pc' = [pc EXCEPT ![w] = "w_loop"]
          /\ UNCHANGED <<rx_count_, delivered>>
  /\ ret' = [ret EXCEPT ![w] = "none"]
  /\ buf' = [buf EXCEPT ![w] = <<>>]
  /\ out_len' = [out_len EXCEPT ![w] = 0]
  /\ r' = [r EXCEPT ![w] = "none"]
  /\ UNCHANGED <<com_handle_, com_baudrate_, is_cmd_opened_, rx_thread_exit_flag_,
                 rx_thread_, read_callback_, os, crashed, sel, jw, nworkers, joined,
                 opens, last_op, desc_bad, sent, destructing, close_calls, wread>>

\* lines 213-216: count the bytes read and call the callback with them
RxThreadProc_Deliver(w) ==
  /\ At(w, "w_chk")
  /\ IF ret[w] = "true" /\ out_len[w] # 0
     THEN /\ rx_count_' = rx_count_ + out_len[w]
          /\ IF read_callback_
             THEN /\ delivered' = delivered \o SubSeq(buf[w], 1, out_len[w])
                  /\ pc' = [pc EXCEPT ![w] = "in_cb"]
             ELSE /\ pc' = [pc EXCEPT ![w] = "w_loop"]
                  /\ UNCHANGED delivered
     ELSE /\ pc' = [pc EXCEPT ![w] = "w_loop"]
          /\ UNCHANGED <<rx_count_, delivered>>
  /\ ret' = [ret EXCEPT ![w] = "none"]
  /\ buf' = [buf EXCEPT ![w] = <<>>]
  /\ out_len' = [out_len EXCEPT ![w] = 0]
  /\ r' = [r EXCEPT ![w] = "none"]
  /\ UNCHANGED <<com_handle_, com_baudrate_, is_cmd_opened_, rx_thread_exit_flag_,
                 rx_thread_, read_callback_, os, crashed, sel, jw, nworkers, joined,
                 opens, last_op, desc_bad, sent, destructing, close_calls, wread>>

\* line 217: the callback returns
RxThreadProc_CallbackReturn(w) ==
  /\ At(w, "in_cb")
  /\ pc' = [pc EXCEPT ![w] = "w_loop"]
  /\ UNCHANGED <<inst, os, crashed, ret, locals, nworkers, joined, hist>>

\* ---------------------------------------------------------- specification
\* The receiver threads, ReadFromIO as any thread runs it, and the peer.
Background ==
  \/ \E t \in Threads : ReadFromIO_Enter(t)
  \/ \E t \in Threads : ReadFromIO_Select(t)
  \/ \E t \in Threads : ReadFromIO_Read(t)
  \/ \E f \in FdRange : PeerEcho(f)
  \/ \E w \in Workers : RxThreadProc_Loop(w)
  \/ \E w \in Workers : RxThreadProc_Deliver(w)
  \/ \E w \in Workers : RxThreadProc_CallbackReturn(w)

\* Open() runs on
OpenSteps == Open_Connect(Main) \/ Open_Attr(Main) \/ Open_Done(Main)

\* Close() runs on, in the thread c
CloseSteps(c) ==
  \/ Close_Enter(c)
  \/ Close_Handle(c)
  \/ Close_Reset(c)
  \/ Close_JoinCheck(c)
  \/ Close_Join(c)
  \/ Close_Delete(c)
  \/ Close_Done(c)

\* One calling thread that calls Open(), Close() and WriteToIo() at any time
\* it is not inside a call, Open() on an open instance included. All reading
\* is done by the receiver threads.
Next ==
  \/ \E d \in Descriptors, b \in Bauds : Open_Begin(Main, d, b)
  \/ OpenSteps
  \/ Close_Call(Main)
  \/ Destructor(Main)
  \/ CloseSteps(Main)
  \/ WriteToIo(Main)
  \/ SetReadCallback(Main)
  \/ Background

Spec == Init /\ [][Next]_vars

\* One calling thread that does not call Open() on an instance that is open,
\* and that also calls ReadFromIO() itself.
NextInOrder ==
  \/ ~is_cmd_opened_ /\ \E d \in Descriptors, b \in Bauds : Open_Begin(Main, d, b)
  \/ OpenSteps
  \/ Close_Call(Main)
  \/ Destructor(Main)
  \/ CloseSteps(Main)
  \/ Read_Call(Main)
  \/ WriteToIo(Main)
  \/ SetReadCallback(Main)
  \/ Background

SpecInOrder == Init /\ [][NextInOrder]_vars

\* As SpecInOrder, with a second thread that calls Close() at any time.
NextTwoClosers ==
  \/ ~is_cmd_opened_ /\ \E d \in Descriptors, b \in Bauds : Open_Begin(Main, d, b)
  \/ OpenSteps
  \/ \E c \in Callers : Close_Call(c)
  \/ \E c \in Callers : CloseSteps(c)
  \/ WriteToIo(Main)
  \/ SetReadCallback(Main)
  \/ Background

SpecTwoClosers == Init /\ [][NextTwoClosers]_vars

\* A receiver thread's next step, whichever it is.
WorkerStep(w) ==
  \/ RxThreadProc_Loop(w)
  \/ ReadFromIO_Enter(w)
  \/ ReadFromIO_Select(w)
  \/ ReadFromIO_Read(w)
  \/ RxThreadProc_Deliver(w)
  \/ RxThreadProc_CallbackReturn(w)

\* SpecInOrder with threads that keep running: a receiver thread that can take
\* a step takes one (every wait is bounded and every callback returns), and so
\* does a thread inside Close() (join() returns once the thread has ended).
FairInOrder ==
  /\ SpecInOrder
  /\ WF_vars(CloseSteps(Main))
  /\ \A w \in Workers : WF_vars(WorkerStep(w))

\* The echo test: a callback is registered, then the instance is opened, the
\* caller writes and the peer echoes. Nothing is closed, and only the
\* receiver thread reads.
NextEcho ==
  \/ /\ read_callback_ /\ ~is_cmd_opened_
     /\ \E d \in Descriptors, b \in Bauds : Open_Begin(Main, d, b)
  \/ OpenSteps
  \/ SetReadCallback(Main)
  \/ WriteToIo(Main)
  \/ Background

\* The threads keep running and the peer keeps echoing; and the link works:
\* of the waits on a readable descriptor not all are interrupted, and of the
\* reads of a descriptor with data not all fail.
FairEcho ==
  /\ Init /\ [][NextEcho]_vars
  /\ \A w \in Workers : WF_vars(WorkerStep(w))
  /\ \A f \in FdRange : WF_vars(PeerEcho(f))
  /\ \A w \in Workers : SF_vars(ReadFromIO_Select(w) /\ pc'[w] = "rd_read")
  /\ \A w \in Workers : SF_vars(ReadFromIO_Read(w) /\ ret'[w] = "true")

\* ------------------------------------------------------------------ claims
\* the receiver threads that have been started and have not left their loop
Live == {w \in Workers : pc[w] \notin {"unborn", "stopped"}}

\* C1: Open() of a malformed network descriptor (no ':' after the scheme, an
\* empty host or an empty port) returns false and allocates nothing: no
\* socket is created, com_handle_ and is_cmd_opened_ stay as they were and no
\* receiver thread is started.
C1_MalformedRejected ==
  [][(pc[Main] = "idle" /\ opens' = opens + 1 /\ desc_bad')
       => /\ pc'[Main] = "idle"
          /\ ret'[Main] = "false"
          /\ fds' = fds
          /\ com_handle_' = com_handle_
          /\ is_cmd_opened_' = is_cmd_opened_
          /\ nworkers' = nworkers]_vars

\* C2: when Open() of a well-formed descriptor returns failure after a failed
\* connect, a failed device open or a failed get/set of the line attributes, the descriptor it had
\* allocated is released, com_handle_ is -1, the instance is not open and no
\* receiver thread has been started.
C2_NoPartialState ==
  [][(/\ \/ pc[Main] \in {"op_connect", "op_attr"}
         \/ pc[Main] = "idle" /\ opens' = opens + 1
      /\ ~desc_bad'
      /\ pc'[Main] = "idle"
      /\ ret'[Main] = "false")
       => /\ fds' = fds \ (IF pc[Main] = "idle" THEN {} ELSE {com_handle_})
          /\ com_handle_' = INVALID
          /\ ~is_cmd_opened_'
          /\ nworkers' = nworkers]_vars

\* C3: Close() on an instance that is not open (so every Close() after the
\* first, the destructor's included) returns true and changes nothing: not
\* the handle, the open flag, the exit flag, the thread object or the byte
\* counter; no descriptor is closed and no thread is joined.
C3_CloseIdempotent ==
  [][\A c \in Callers :
       (pc[c] = "cl_enter" /\ pc'[c] # "cl_enter" /\ ~is_cmd_opened_)
         => /\ pc'[c] = "idle"
            /\ ret'[c] = "true"
            /\ UNCHANGED <<inst, os, nworkers, joined, close_calls, crashed>>
            /\ \A w \in Workers : pc'[w] = pc[w]]_vars

\* C3 witness: the destructor's Close() has returned at once, after an
\* earlier Close() that joined the thread of a successful Open().
C3_Witness ==
  /\ destructing
  /\ pc[Main] = "idle"
  /\ last_op[Main] = "Close_noop"
  /\ joined # {}
  /\ close_calls = 1

\* C4: with two threads calling Close(), the handle is closed once, the
\* thread is joined once and both calls return true.
C4_ConcurrentCloseSafe ==
  /\ close_calls <= 1
  /\ Cardinality({c \in Callers : pc[c] = "cl_join"}) <= 1
  /\ \A c \in Callers : last_op[c] \in {"Close", "Close_noop"} => ret[c] # "threw"

\* C5: a Close() that has found the instance open returns, with the instance
\* not open, whatever the receiver thread was doing.
C5_CloseReturns ==
  (pc[Main] = "cl_close") ~> (pc[Main] = "idle" /\ ~is_cmd_opened_)

IsPrefix(a, b) == Len(a) <= Len(b) /\ a = SubSeq(b, 1, Len(a))

\* C6: with a callback registered before Open(), the bytes handed to the
\* callback are always the first of the bytes written, in order, and the byte
\* counter is their number; and every byte written is handed over in the end.
C6_EchoDelivered ==
  /\ [](IsPrefix(delivered, sent) /\ rx_count_ = Len(delivered))
  /\ \A n \in 1..MaxBytes :
       (is_cmd_opened_ /\ Len(sent) >= n) ~> (Len(delivered) >= n)

\* C6 witness: every byte the run may write has been written, echoed,
\* handed to the callback and counted.
C6_Witness ==
  /\ is_cmd_opened_
  /\ Len(sent) = MaxBytes
  /\ delivered = sent
  /\ rx_count_ = MaxBytes
  /\ \A w \in Workers : pc[w] # "in_cb"

\* C7: at most one receiver thread is live at any time.
C7_OneWorker == Cardinality(Live) <= 1

\* C8: at most one invocation of the callback is in progress at any time.
C8_CallbackNotConcurrent == Cardinality({w \in Workers : pc[w] = "in_cb"}) <= 1

\* C9: a receiver thread never waits on, and never reads from, a handle that
\* Close() has released or reset: Close() joins the thread first.
C9_JoinBeforeRelease ==
  \A w \in Workers :
    /\ pc[w] = "rd_select" => sel[w] \in fds
    /\ pc[w] = "rd_read" => com_handle_ \in fds

\* C10: ReadFromIO() on an instance that is not open returns false at once:
\* no wait, no read, and *rx_len is not written.
C10_ReadNotOpenFails ==
  [][\A c \in Callers :
       (pc[c] = "rd_enter" /\ pc'[c] # "rd_enter" /\ ~is_cmd_opened_)
         => /\ pc'[c] = "idle"
            /\ ret'[c] = "false"
            /\ out_len'[c] = out_len[c]
            /\ UNCHANGED <<inst, os, crashed>>]_vars

\* C10 witness: a ReadFromIO() called after Close() has returned false.
C10_Witness ==
  /\ pc[Main] = "idle"
  /\ last_op[Main] = "Read"
  /\ ret[Main] = "false"
  /\ ~is_cmd_opened_
  /\ joined # {}

\* the bytes a receiver thread has read and not yet counted
RECURSIVE PendingUpTo(_)
PendingUpTo(n) ==
  IF n = 0 THEN 0
  ELSE PendingUpTo(n - 1)
       + (IF pc[n] = "w_chk" /\ ret[n] = "true" THEN out_len[n] ELSE 0)

\* C11: an iteration of the loop whose read returned true with a count c > 0
\* adds c to rx_count_ and, when a callback is registered, calls it once with
\* the c bytes read before the next read starts (without a callback the bytes
\* are counted and dropped); an iteration whose read failed or gave 0 bytes
\* touches neither. So rx_count_ is the number of bytes the receiver threads
\* have read, once every read has been counted.
C11_CountAndDeliver ==
  /\ [](rx_count_ + PendingUpTo(MaxOpens) = wread)
  /\ [][\A w \in Workers :
         (pc[w] = "w_chk" /\ pc'[w] # "w_chk")
           => IF ret[w] = "true" /\ out_len[w] # 0
              THEN /\ rx_count_' = rx_count_ + out_len[w]
                   /\ Len(buf[w]) = out_len[w]
                   /\ IF read_callback_
                      THEN pc'[w] = "in_cb" /\ delivered' = delivered \o buf[w]
                      ELSE pc'[w] = "w_loop" /\ delivered' = delivered
              ELSE /\ rx_count_' = rx_count_
                   /\ delivered' = delivered
                   /\ pc'[w] = "w_loop"]_vars

\* C11 witness: a byte was counted and dropped while no callback was
\* registered, and a later one is now in the callback, counted.
C11_Witness ==
  /\ \E w \in Workers : pc[w] = "in_cb"
  /\ delivered # <<>>
  /\ Len(delivered) < rx_count_
  /\ rx_count_ = wread

\* where a thread stands inside ReadFromIO, and inside Close() once the exit
\* flag is set
InRead == {"rd_enter", "rd_select", "rd_read"}
Closing == {"cl_close", "cl_reset", "cl_joinchk", "cl_join"}

\* C12: a receiver thread leaves its loop only at the loop's test, on finding
\* the exit flag set by a Close() of the Open() that started it: a read that
\* timed out, was interrupted, failed or gave no bytes sends it back to the
\* test, and the flag an earlier Close() left set is cleared before the thread
\* of a later Open() starts.
C12_ExitOnlyOnSignal ==
  [][\A w \in Workers :
       /\ (pc[w] # "stopped" /\ pc'[w] = "stopped")
            => /\ pc[w] = "w_loop"
               /\ rx_thread_exit_flag_
               /\ rx_thread_ = w
               /\ pc[Main] \in Closing
       /\ (pc[w] \in InRead /\ pc'[w] \notin InRead) => pc'[w] = "w_chk"
       /\ (pc[w] = "w_chk" /\ pc'[w] # "w_chk") => pc'[w] \in {"w_loop", "in_cb"}]_vars

\* C12 witness: the thread of a second Open(), started after the Close() that
\* stopped the first, is back from a read that timed out and runs on.
C12_Witness ==
  /\ MaxOpens >= 2
  /\ 1 \in joined
  /\ pc[2] = "w_chk"
  /\ ret[2] = "false"
  /\ r[2] = "timeout"
  /\ is_cmd_opened_
  /\ ~rx_thread_exit_flag_

\* C13: once Close() has set the exit flag, the receiver thread stops at its
\* next test of the flag: the flag stays set while the thread runs, the thread
\* starts no iteration with the flag set (so it finishes at most the read, and
\* the callback, of the iteration it is in), and it does stop.
C13_ExitAfterSignal ==
  /\ [][\A w \in Workers :
         /\ (pc[w] = "w_loop" /\ pc'[w] = "rd_enter") => ~rx_thread_exit_flag_
         /\ (rx_thread_exit_flag_ /\ ~rx_thread_exit_flag_')
              => pc[w] \in {"unborn", "stopped"}]_vars
  /\ \A w \in Workers :
       (rx_thread_exit_flag_ /\ pc[w] \notin {"unborn", "stopped"})
         ~> (pc[w] = "stopped")

\* C14: when pselect fails with an error other than EINTR, on a handle nobody
\* has changed meanwhile, ReadFromIO returns false there and then: no read()
\* follows, *rx_len is not written and nothing is taken from the descriptor.
C14_WaitErrorFails ==
  [][\A t \in Threads :
       (pc[t] = "rd_select" /\ r'[t] = "error" /\ com_handle_ = sel[t])
         => /\ pc'[t] \in {"idle", "w_chk"}
            /\ ret'[t] = "false"
            /\ out_len'[t] = out_len[t]
            /\ inq' = inq]_vars

\* C15: when pselect times out or is interrupted, ReadFromIO returns false
\* and has changed nothing: no read() follows, nothing is taken from the
\* descriptor, *rx_len and the buffer are as they were, and so are the
\* instance's fields (the open flag, the handle, the exit flag, the counter).
C15_TimeoutNoEffect ==
  [][\A t \in Threads :
       /\ (pc[t] = "rd_select" /\ r'[t] \in {"EINTR", "timeout"})
            => /\ pc'[t] \in {"idle", "w_chk"}
               /\ ret'[t] = "false"
               /\ out_len'[t] = out_len[t]
               /\ buf'[t] = buf[t]
               /\ UNCHANGED <<inst, os, crashed>>
       /\ (pc[t] = "rd_enter" /\ pc'[t] = "rd_select")
            => UNCHANGED <<inst, os, out_len, buf>>]_vars

\* C15 witness: the caller's ReadFromIO() was interrupted while a byte was
\* waiting on the handle; it returned false and the byte is still there.
C15_Witness ==
  /\ pc[Main] = "idle"
  /\ last_op[Main] = "Read"
  /\ r[Main] = "EINTR"
  /\ ret[Main] = "false"
  /\ is_cmd_opened_
  /\ com_handle_ \in fds
  /\ inq[com_handle_] # <<>>

\* C16: a wait that finds the handle readable is followed by one read(), and
\* the call returns from it: true, with *rx_len (when the caller gave one)
\* the number of bytes taken from the descriptor, 0 at end of stream
\* included, and for the loop the buffer holding those bytes; or false when
\* read() failed, with nothing taken and *rx_len as it was.
C16_OneRead ==
  [][\A t \in Threads :
       /\ (pc[t] = "rd_select" /\ r'[t] = "ready" /\ com_handle_ = sel[t])
            => pc'[t] = "rd_read"
       /\ (pc[t] = "rd_read" /\ pc'[t] # "rd_read")
            => /\ pc'[t] \in {"idle", "w_chk"}
               /\ fds' = fds
               /\ IF ret'[t] = "true"
                  THEN /\ com_handle_ \in fds
                       /\ LET h == com_handle_
                              n == Len(inq[h]) - Len(inq'[h])
                          IN /\ n >= 0
                             /\ inq' = [inq EXCEPT ![h] = SubSeq(inq[h], n + 1, Len(inq[h]))]
                             /\ out_len[t] >= 0 => out_len'[t] = n
                             /\ out_len[t] < 0 => out_len'[t] = out_len[t]
                             /\ (t \in Workers /\ n > 0) => buf'[t] = SubSeq(inq[h], 1, n)
                  ELSE /\ ret'[t] = "false"
                       /\ inq' = inq
                       /\ out_len'[t] = out_len[t]]_vars

\* C16 witness: two bytes were waiting on the handle; the caller's
\* ReadFromIO() with room for one returned true with *rx_len = 1, and the
\* other byte is still waiting.
C16_Witness ==
  /\ pc[Main] = "idle"
  /\ last_op[Main] = "Read"
  /\ r[Main] = "ready"
  /\ ret[Main] = "true"
  /\ out_len[Main] = 1
  /\ com_handle_ \in fds
  /\ inq[com_handle_] = <<2>>

\* C17: WriteToIo() on an open instance makes one write() and returns: true
\* with *tx_len the number of bytes the descriptor accepted, which are the
\* only bytes added to it (as few as none of those offered), or false with
\* nothing written; on an instance that is not open it returns false with
\* nothing written and *tx_len as it was. The instance's fields are unchanged.
C17_OneWrite ==
  [][\A c \in Callers :
       (/\ pc[c] = "idle" /\ pc'[c] = "idle" /\ last_op'[c] = "Write"
        /\ \/ last_op[c] # "Write"
           \/ ret'[c] # ret[c]
           \/ out_len'[c] # out_len[c]
           \/ sent' # sent)
         => /\ UNCHANGED <<inst, fds, inq>>
            /\ \/ /\ ret'[c] = "false"
                  /\ outq' = outq
                  /\ sent' = sent
                  /\ out_len'[c] = out_len[c]
               \/ /\ ret'[c] = "true"
                  /\ is_cmd_opened_
                  /\ com_handle_ \in fds
                  /\ IsPrefix(sent, sent')
                  /\ LET h == com_handle_
                         new == SubSeq(sent', Len(sent) + 1, Len(sent'))
                     IN /\ outq' = [outq EXCEPT ![h] = outq[h] \o new]
                        /\ out_len'[c] = Len(new)]_vars

\* C17 witness: a WriteToIo() on the open instance returned true with
\* *tx_len = 1 after an earlier one whose byte the peer has echoed.
C17_Witness ==
  /\ pc[Main] = "idle"
  /\ last_op[Main] = "Write"
  /\ ret[Main] = "true"
  /\ out_len[Main] = 1
  /\ is_cmd_opened_
  /\ com_handle_ \in fds
  /\ outq[com_handle_] = <<2>>

\* where a thread stands inside Close()
InClose == {"cl_enter", "cl_delete", "cl_done"} \cup Closing

\* C18: rx_count_ changes only in a step of a receiver thread's loop, and
\* then it grows: Open(), Close(), a caller's ReadFromIO() and WriteToIo()
\* leave it alone, so it keeps its value over a Close() and the next Open().
\* Of the instance's fields Close() writes only the exit flag, the handle,
\* the thread object and the open flag.
C18_CounterFrame ==
  [][/\ rx_count_' # rx_count_
          => /\ rx_count_' > rx_count_
             /\ \E w \in Workers : pc[w] = "w_chk" /\ pc'[w] # "w_chk"
     /\ \A c \in Callers :
          (pc'[c] # pc[c] \/ ret'[c] # ret[c] \/ last_op'[c] # last_op[c])
            => rx_count_' = rx_count_
     /\ \A c \in Callers :
          (pc[c] \in InClose /\ pc'[c] # pc[c])
            => UNCHANGED <<com_baudrate_, rx_count_, read_callback_>>]_vars

\* C18 witness: a second Open(), after a Close() that joined the first
\* thread, has started its thread and not yet marked the instance open; the
\* counter still holds the bytes the first thread counted.
C18_Witness ==
  /\ pc[Main] = "op_done"
  /\ 1 \in joined
  /\ nworkers = 2
  /\ rx_count_ > 0
  /\ rx_count_ = wread

\* C19: with one caller that opens only an instance that is not open, while
\* is_cmd_opened_ is false no callback is running or called and rx_count_
\* does not change; and no receiver thread is alive then, from the return of
\* Close() (or from construction) until an Open() starts the next one.
C19_QuietWhenClosed ==
  /\ []((~is_cmd_opened_ /\ pc[Main] # "op_done") => Live = {})
  /\ [](~is_cmd_opened_ => \A w \in Workers : pc[w] # "in_cb")
  /\ [][~is_cmd_opened_ => (rx_count_' = rx_count_ /\ delivered' = delivered)]_vars

\* C19 witness: Close() has returned after a session in which the callback
\* was called; the thread is joined and the instance is not open.
C19_Witness ==
  /\ pc[Main] = "idle"
  /\ last_op[Main] = "Close"
  /\ ret[Main] = "true"
  /\ ~is_cmd_opened_
  /\ joined # {}
  /\ delivered # <<>>
  /\ rx_count_ > 0

====
